---- MODULE Spec2Model ----
(***************************************************************************)
(* Model of src/app.py: a Streamlit dashboard that downloads a daily price *)
(* series (download_data, memoized by st.cache_data), shows technical      *)
(* indicators (tech_indicators / plot_chart), the last records (dataframe) *)
(* and a regression forecast (predict / train_and_predict).                *)
(*                                                                         *)
(* Streamlit re-runs the whole script (main) on every widget interaction.  *)
(* A button reads True only in the run caused by its own press, and the    *)
(* state of a widget that is not rendered in a run is discarded.           *)
(*                                                                         *)
(* Text is modelled as a sequence of one-character strings so that upper,  *)
(* join, strip and split are computed, not assumed.                        *)
(***************************************************************************)
EXTENDS Integers, Sequences, FiniteSets, TLC

VARIABLES
  option,          \* sidebar selectbox 'Select an option'
  stock_symbol,    \* sidebar text_input (text as typed, before .upper())
  start_date,      \* sidebar date_input 'Start Date'
  end_date,        \* sidebar date_input 'End Date'
  indicator,       \* radio of tech_indicators (widget state)
  model_choice,    \* selectbox of predict (widget state)
  days_forecast,   \* slider of predict (widget state)
  rendered,        \* widgets of the main area shown by the last run
  cache,           \* st.cache_data store of download_data: key -> entry
  fetched,         \* number of yf.download calls so far
  invoked,         \* key -> how its first download_data call ended (history)
  trigger,         \* the interaction that caused the last run
  fetches,         \* yf.download calls made by the last run
  source,          \* what yf.download answered in the last run
  seenBefore,      \* invoked[key] before the last run's download_data call
  drawnBefore,     \* the run before the last one had tech_indicators work on
                   \* the series of the same Request Key
  messages,        \* st.error / st.sidebar.* messages of the last run
  view,            \* renderer called by the last run
  charts,          \* figures passed to st.plotly_chart by the last run
  table,           \* rows shown by st.dataframe(df.tail(10)) in the last run
  loaded,          \* value download_data returned in the last run
  work,            \* the frame as the renderer of the last run left it
  forecast,        \* what train_and_predict did in the last run
  tpIn             \* arguments of a direct train_and_predict call

vars == << option, stock_symbol, start_date, end_date, indicator, model_choice,
           days_forecast, rendered, cache, fetched, invoked, trigger,
           fetches, source, seenBefore, drawnBefore, messages, view, charts,
           table, loaded, work, forecast, tpIn >>

----------------------------------------------------------------------------
(* Bounds of the model *)

\* calendar days are 1..MaxDate
MaxDate == 3
\* a session makes at most MaxFetches calls of yf.download
MaxFetches == 2
\* longest Close series handed to train_and_predict directly
MaxN == 50

(* Program constants *)

SliderMin == 1
SliderMax == 30
SliderDefault == 5
TailRows == 10
KnnNeighbors == 5

----------------------------------------------------------------------------
(* Text *)

Date == << "D", "a", "t", "e" >>
Open == << "O", "p", "e", "n" >>
High == << "H", "i", "g", "h" >>
Low == << "L", "o", "w" >>
Close == << "C", "l", "o", "s", "e" >>
Volume == << "V", "o", "l", "u", "m", "e" >>
bb_high == << "b", "b", "_", "h", "i", "g", "h" >>
bb_low == << "b", "b", "_", "l", "o", "w" >>
macd == << "m", "a", "c", "d" >>
rsi == << "r", "s", "i" >>
sma == << "s", "m", "a" >>
ema == << "e", "m", "a" >>

\* what the user may type into 'Enter Stock Symbol'; the first is the default
AAPL == << "A", "A", "P", "L" >>
SymbolInputs == { AAPL, << "b", "_", "f" >> }

LowerToUpper ==
  [ c \in {"a", "b", "f", "l", "p"} |->
      CASE c = "a" -> "A" [] c = "b" -> "B" [] c = "f" -> "F"
        [] c = "l" -> "L" [] c = "p" -> "P" ]

\* str.upper()
Upper(s) ==
  [ i \in 1..Len(s) |-> IF s[i] \in DOMAIN LowerToUpper THEN LowerToUpper[s[i]] ELSE s[i] ]

\* '_'.join(col) for a tuple col of texts
RECURSIVE Join(_)
Join(col) ==
  IF col = << >> THEN << >>
  ELSE IF Len(col) = 1 THEN col[1]
  ELSE col[1] \o << "_" >> \o Join(Tail(col))

\* str.strip(): drops leading and trailing whitespace
RECURSIVE LStrip(_)
LStrip(s) == IF s # << >> /\ s[1] = " " THEN LStrip(Tail(s)) ELSE s

RECURSIVE RStrip(_)
RStrip(s) ==
  IF s # << >> /\ s[Len(s)] = " " THEN RStrip(SubSeq(s, 1, Len(s) - 1)) ELSE s

Strip(s) == RStrip(LStrip(s))

\* '_' in col
HasUnderscore(s) == \E i \in 1..Len(s) : s[i] = "_"

SplitLast(s) ==
  LET us == { i \in 1..Len(s) : s[i] = "_" }
      k == CHOOSE i \in us : \A j \in us : j <= i
  IN SubSeq(s, k + 1, Len(s))

\* col.split('_')[0], for a col that contains '_'
SplitFirst(s) ==
  LET us == { i \in 1..Len(s) : s[i] = "_" }
      k == CHOOSE i \in us : \A j \in us : i <= j
  IN SubSeq(s, 1, k - 1)

\* line 41: drop the ticker from a flattened label
RenameColumn(col) == IF HasUnderscore(col) THEN SplitFirst(col) ELSE col

\* lines 37-41 on the labels of df.columns; multi is isinstance(.., MultiIndex)
NormalizeColumns(labels, multi) ==
  LET flat == IF multi THEN [ i \in 1..Len(labels) |-> Strip(Join(labels[i])) ]
              ELSE labels
  IN [ i \in 1..Len(flat) |-> RenameColumn(flat[i]) ]

Fields == << Open, High, Low, Close, Volume >>

\* labels of yf.download(symbol, ...) after reset_index(), per layout
SourceLabels(layout, symbol) ==
  IF layout = "multi"
  THEN << << Date, << >> >> >> \o [ i \in 1..Len(Fields) |-> << Fields[i], symbol >> ]
  ELSE << Date >> \o Fields

----------------------------------------------------------------------------
(* train_and_predict *)

\* a cell is << price >>, or NaN when undefined
NaN == << >>

Models == { "Linear Regression", "Random Forest", "Extra Trees", "KNN", "XGBoost" }
DefaultModel == "Linear Regression"
Horizons == SliderMin..SliderMax

Max(a, b) == IF a >= b THEN a ELSE b

\* a daily Close series of n prices
Prices(n, shape) == [ i \in 1..n |-> IF shape = "flat" THEN << 100 >> ELSE << 100 + i >> ]

ShiftOffByOne(close, days) ==
  [ i \in 1..Len(close) |-> IF i + days - 1 <= Len(close) THEN close[i + days - 1] ELSE NaN ]

\* df['Close'].shift(-days): row i gets the Close of row i + days
Shift(close, days) ==
  [ i \in 1..Len(close) |-> IF i + days <= Len(close) THEN close[i + days] ELSE NaN ]

\* df.dropna(): the rows without an undefined cell
DropNa(close, target) ==
  { i \in 1..Len(close) : close[i] # NaN /\ target[i] # NaN }

\* train_test_split(test_size=0.2): n_test = ceil(0.2 n), n_train = n - n_test
TestSize(n) == (n + 4) \div 5
TrainSize(n) == n - TestSize(n)

\* df[['Close']].values[-days:]
LastRows(close, days) == SubSeq(close, Max(1, Len(close) - days + 1), Len(close))

\* the value a fitted model predicts for input x (left to the library)
PredictOne(model, x) == << model, x >>

DayOffsetsFromZero(days) == [ k \in 1..days |-> k - 1 ]

\* range(1, days + 1)
DayOffsets(days) == [ k \in 1..days |-> k ]

NoForecast == [ outcome |-> "none", eligible |-> 0, steps |-> {}, rows |-> << >> ]

\* line 149: pd.DataFrame pairs the day offsets with the predictions
ForecastFrame(offs, preds, n) ==
  IF Len(offs) # Len(preds)
  THEN \* pd.DataFrame raises: arrays of different length
       [ outcome |-> "ValueError", eligible |-> n,
         steps |-> { "scale", "split", "fit", "predict", "metrics" }, rows |-> << >> ]
  ELSE [ outcome |-> "forecast", eligible |-> n,
         steps |-> { "scale", "split", "fit", "predict", "metrics" },
         rows |-> [ k \in 1..Len(offs) |-> [ Day |-> offs[k], Price |-> preds[k] ] ] ]

\* lines 128-150, for a frame whose Target column has `defined` non-null
\* cells and of which dropna keeps n rows
FitAndForecast(model, close, days, defined, n) ==
  IF defined = 0
  THEN \* df['Target'].isnull().all(): report and return
       [ outcome |-> "InsufficientData", eligible |-> n, steps |-> {}, rows |-> << >> ]
  ELSE IF TrainSize(n) = 0
  THEN \* train_test_split raises: the resulting train set is empty
       [ outcome |-> "ValueError", eligible |-> n, steps |-> { "scale" }, rows |-> << >> ]
  ELSE IF model = "KNN" /\ TrainSize(n) < KnnNeighbors
  THEN \* KNeighborsRegressor.predict raises: n_neighbors > n_samples_fit
       [ outcome |-> "ValueError", eligible |-> n,
         steps |-> { "scale", "split", "fit" }, rows |-> << >> ]
  ELSE ForecastFrame(DayOffsets(days),
                     [ k \in 1..Len(LastRows(close, days)) |->
                         PredictOne(model, LastRows(close, days)[k]) ],
                     n)

\* number of defined cells of a column
CountDefined(col) == Cardinality({ i \in 1..Len(col) : col[i] # NaN })

\* lines 123-150; steps are the library stages that ran, rows the table shown
train_and_predict(model, close, days) ==
  FitAndForecast(model, close, days,
                 CountDefined(Shift(close, days)),
                 Cardinality(DropNa(close, Shift(close, days))))

----------------------------------------------------------------------------
(* download_data and its st.cache_data store *)

\* Python's None, and markers for "no earlier call", "no call", "not in the store"
None == [ none |-> TRUE ]
Never == [ never |-> TRUE ]
NotCalled == [ notcalled |-> TRUE ]
Miss == [ miss |-> TRUE ]
NoAnswer == [ kind |-> "none", layout |-> "none", n |-> 0 ]
NoFrame == [ columns |-> << >>, close |-> << >> ]

Dates == 1..MaxDate
Options == { "Visualize", "Recent Data", "Predict" }
Indicators == { "Close", "Bollinger Bands", "MACD", "RSI", "SMA", "EMA" }
DefaultIndicator == "Close"

Range(f) == { f[i] : i \in DOMAIN f }

\* what yf.download may answer for a range: an exception, no rows, or one row
\* per day of the range, with flat or hierarchical column labels
SourceAnswers(s, e) ==
  { [ kind |-> "raise", layout |-> "none", n |-> 0 ],
    [ kind |-> "empty", layout |-> "none", n |-> 0 ] }
  \cup { [ kind |-> "rows", layout |-> l, n |-> n ] :
           l \in { "flat", "multi" }, n \in { e - s } }

download_data_keeps_empty(symbol, ans) ==
  IF ans.kind = "raise"
  THEN [ value |-> None, msgs |-> { "FetchError" } ]
  ELSE [ value |-> [ columns |-> NormalizeColumns(SourceLabels("flat", symbol), FALSE),
                     close |-> Prices(ans.n, "up") ],
         msgs |-> {} ]

\* lines 27-46, the body st.cache_data wraps: the value returned and the
\* st.error elements emitted (st.cache_data replays them on a hit)
download_data(symbol, ans) ==
  IF ans.kind = "raise"
  THEN [ value |-> None, msgs |-> { "FetchError" } ]
  ELSE IF ans.kind = "empty"
  THEN [ value |-> None, msgs |-> { "EmptyResult" } ]
  ELSE [ value |-> [ columns |-> NormalizeColumns(SourceLabels(ans.layout, symbol),
                                                  ans.layout = "multi"),
                     close |-> Prices(ans.n, "up") ],
         msgs |-> {} ]

CacheLookupBySymbol(c, key) ==
  IF \E k \in DOMAIN c : k[1] = key[1]
  THEN c[CHOOSE k \in DOMAIN c : k[1] = key[1]]
  ELSE Miss

\* st.cache_data keys an entry by the values of all three arguments
CacheLookup(c, key) == IF key \in DOMAIN c THEN c[key] ELSE Miss

CacheStoreSuccessOnly(c, key, entry) ==
  IF entry.value = None THEN c
  ELSE [ k \in DOMAIN c \cup { key } |-> IF k = key THEN entry ELSE c[k] ]

\* st.cache_data stores whatever the body returned, None included
CacheStore(c, key, entry) ==
  [ k \in DOMAIN c \cup { key } |-> IF k = key THEN entry ELSE c[k] ]

CacheSharesObject(c, key, frame) ==
  IF key \in DOMAIN c /\ c[key].value # None
  THEN [ c EXCEPT ![key].value = frame ]
  ELSE c

\* st.cache_data keeps a serialized copy: what the caller does to the frame
\* it was handed does not reach the store
CacheAfterCaller(c, key, frame) == c

----------------------------------------------------------------------------
(* Renderers *)

index == << "i", "n", "d", "e", "x" >>
IndicatorColumns == << bb_high, bb_low, macd, rsi, sma, ema >>

\* df[name] = ...: a new column goes last, an existing one is overwritten
RECURSIVE AddColumns(_, _)
AddColumns(cols, names) ==
  IF names = << >> THEN cols
  ELSE AddColumns(IF names[1] \in Range(cols) THEN cols ELSE Append(cols, names[1]),
                  Tail(names))

\* lines 48-60
plot_chart(df, title, y_column, color) ==
  LET cols == << index >> \o df.columns
  IN IF y_column \notin Range(cols)
     THEN [ messages |-> { "ColumnNotFound" }, charts |-> << >> ]
     ELSE [ messages |-> {},
            charts |-> << [ title |-> title, x |-> Date, y |-> << y_column >>,
                            color |-> color ] >> ]

\* lines 85-100: the chart of the chosen indicator
DrawIndicator(df, opt) ==
  CASE opt = "Close" -> plot_chart(df, "Close Price", Close, "blue")
    [] opt = "Bollinger Bands" ->
         [ messages |-> {},
           charts |-> << [ title |-> "", x |-> index,
                           y |-> << Close, bb_high, bb_low >>,
                           color |-> "default" ] >> ]
    [] opt = "MACD" -> plot_chart(df, "MACD", macd, "red")
    [] opt = "RSI" -> plot_chart(df, "RSI (Relative Strength Index)", rsi, "purple")
    [] opt = "SMA" -> plot_chart(df, "Simple Moving Average", sma, "orange")
    [] OTHER -> plot_chart(df, "Exponential Moving Average", ema, "green")

WithFrame(drawn, df) ==
  [ messages |-> drawn.messages, charts |-> drawn.charts, work |-> df ]

\* lines 72-80: the indicator columns are assigned on the frame passed in
WithIndicators(df) == [ df EXCEPT !.columns = AddColumns(df.columns, IndicatorColumns) ]

\* lines 63-100; opt is the value of the radio
tech_indicators(df, opt) ==
  IF Close \notin Range(df.columns)
  THEN [ messages |-> { "MissingField" }, charts |-> << >>, work |-> df ]
  ELSE WithFrame(DrawIndicator(WithIndicators(df), opt), WithIndicators(df))

\* line 105: df.tail(10)
DfTail(close) == SubSeq(close, Max(1, Len(close) - TailRows + 1), Len(close))

\* lines 107-121; pressed is the value st.button('Predict') returns
predict(df, model, days, pressed) ==
  IF pressed THEN train_and_predict(model, df.close, days) ELSE NoForecast

----------------------------------------------------------------------------
(* main: one run of the script *)

Widgets ==
  [ option |-> option, stock_symbol |-> stock_symbol, start_date |-> start_date,
    end_date |-> end_date, indicator |-> indicator, model_choice |-> model_choice,
    days_forecast |-> days_forecast ]

KeyOf(w) == << Upper(w.stock_symbol), w.start_date, w.end_date >>

DatesValidOrEqual(s, e) == s <= e

\* line 163
DatesValid(s, e) == s < e

Quiet(c) ==
  [ cache |-> c, called |-> FALSE, fetches |-> 0, messages |-> {}, view |-> "none",
    charts |-> << >>, table |-> << >>, loaded |-> NotCalled, work |-> NoFrame,
    forecast |-> NoForecast, rendered |-> {} ]

\* line 24: the call of download_data through st.cache_data
StoreAndReturn(c, key, entry) ==
  [ entry |-> entry, cache |-> CacheStore(c, key, entry), fetches |-> 1 ]

LookedUp(c, key, hit, ans) ==
  IF hit = Miss THEN StoreAndReturn(c, key, download_data(key[1], ans))
  ELSE [ entry |-> hit, cache |-> c, fetches |-> 0 ]

cached_download_data(c, key, ans) == LookedUp(c, key, CacheLookup(c, key), ans)

\* lines 164-165: the run up to the return of download_data
AfterLoad(call) ==
  [ Quiet(call.cache) EXCEPT !.called = TRUE,
                             !.fetches = call.fetches,
                             !.messages = { "sidebar.success" } \cup call.entry.msgs,
                             !.loaded = call.entry.value ]

\* line 169
ShowIndicators(base, key, t) ==
  [ base EXCEPT !.view = "tech_indicators",
                !.messages = @ \cup t.messages,
                !.charts = t.charts,
                !.work = t.work,
                !.cache = CacheAfterCaller(@, key, t.work),
                !.rendered = { "radio" } ]

\* line 173; an exception of train_and_predict reaches the page
ShowPredict(base, df, f) ==
  [ base EXCEPT !.view = "predict", !.forecast = f, !.work = df,
                !.messages = @ \cup IF f.outcome \in { "InsufficientData", "ValueError" }
                                    THEN { f.outcome } ELSE {},
                !.rendered = { "model", "slider", "predict_button" } ]

\* lines 167-173
Dispatch(w, pressed, key, base, df) ==
  IF df = None THEN base
  ELSE IF w.option = "Visualize"
  THEN ShowIndicators(base, key, tech_indicators(df, w.indicator))
  ELSE IF w.option = "Recent Data"
  THEN [ base EXCEPT !.view = "dataframe", !.table = DfTail(df.close), !.work = df ]
  ELSE ShowPredict(base, df, predict(df, w.model_choice, w.days_forecast, pressed))

LoadAndShow(w, pressed, key, call) ==
  Dispatch(w, pressed, key, AfterLoad(call), call.entry.value)

\* lines 152-175; load and pressed are the values of the two buttons in this
\* run, ans is what yf.download answers if it is called, c the cache store
main(w, load, pressed, ans, c) ==
  IF ~load THEN Quiet(c)
  ELSE IF ~DatesValid(w.start_date, w.end_date)
  THEN [ Quiet(c) EXCEPT !.messages = { "ValidationError" } ]
  ELSE LoadAndShow(w, pressed, KeyOf(w), cached_download_data(c, KeyOf(w), ans))

NoInput == [ model |-> "none", n |-> 0, shape |-> "none", days |-> 0 ]

\* the page state after a run r of the script caused by trig
Settle(w, trig, ans, key, r) ==
  /\ fetched + r.fetches <= MaxFetches
  /\ option' = w.option
  /\ stock_symbol' = w.stock_symbol
  /\ start_date' = w.start_date
  /\ end_date' = w.end_date
  /\ indicator' = IF "radio" \in r.rendered THEN w.indicator ELSE DefaultIndicator
  /\ model_choice' = IF "model" \in r.rendered THEN w.model_choice ELSE DefaultModel
  /\ days_forecast' = IF "slider" \in r.rendered THEN w.days_forecast ELSE SliderDefault
  /\ rendered' = r.rendered
  /\ cache' = r.cache
  /\ fetched' = fetched + r.fetches
  /\ invoked' = IF r.called /\ key \notin DOMAIN invoked
                THEN [ k \in DOMAIN invoked \cup { key } |->
                         IF k = key THEN r.loaded ELSE invoked[k] ]
                ELSE invoked
  /\ trigger' = trig
  /\ fetches' = r.fetches
  /\ source' = IF r.fetches > 0 THEN ans ELSE NoAnswer
  /\ seenBefore' = IF ~r.called THEN NotCalled
                   ELSE IF key \in DOMAIN invoked THEN invoked[key] ELSE Never
  /\ drawnBefore' = (r.called /\ view = "tech_indicators" /\ work # loaded
                      /\ key = KeyOf(Widgets))
  /\ messages' = r.messages
  /\ view' = r.view
  /\ charts' = r.charts
  /\ table' = r.table
  /\ loaded' = r.loaded
  /\ work' = r.work
  /\ forecast' = r.forecast
  /\ tpIn' = tpIn

\* the user interacts (the widgets become w), Streamlit runs the script, and
\* the state of the widgets the run did not render is discarded
Rerun(w, trig, load, pressed, ans) ==
  Settle(w, trig, ans, KeyOf(w), main(w, load, pressed, ans, cache))

Trig(kind, arg) == [ kind |-> kind, arg |-> arg ]

SetOption(o) ==
  /\ o # option
  /\ Rerun([ Widgets EXCEPT !.option = o ], Trig("Widget", ""), FALSE, FALSE, NoAnswer)

SetSymbol(s) ==
  /\ s # stock_symbol
  /\ Rerun([ Widgets EXCEPT !.stock_symbol = s ], Trig("Widget", ""), FALSE, FALSE, NoAnswer)

SetStartDate(d) ==
  /\ d # start_date
  /\ Rerun([ Widgets EXCEPT !.start_date = d ], Trig("Widget", ""), FALSE, FALSE, NoAnswer)

SetEndDate(d) ==
  /\ d # end_date
  /\ Rerun([ Widgets EXCEPT !.end_date = d ], Trig("Widget", ""), FALSE, FALSE, NoAnswer)

PressLoadData ==
  \E ans \in SourceAnswers(start_date, end_date) :
    Rerun(Widgets, Trig("Load", ""), TRUE, FALSE, ans)

ChooseIndicator(i) ==
  /\ "radio" \in rendered
  /\ i # indicator
  /\ Rerun([ Widgets EXCEPT !.indicator = i ], Trig("Indicator", i), FALSE, FALSE, NoAnswer)

ChooseModel(m) ==
  /\ "model" \in rendered
  /\ m # model_choice
  /\ Rerun([ Widgets EXCEPT !.model_choice = m ], Trig("Widget", ""), FALSE, FALSE, NoAnswer)

SlideDays(d) ==
  /\ "slider" \in rendered
  /\ d # days_forecast
  /\ Rerun([ Widgets EXCEPT !.days_forecast = d ], Trig("Widget", ""), FALSE, FALSE, NoAnswer)

PressPredict ==
  /\ "predict_button" \in rendered
  /\ Rerun(Widgets, Trig("Predict", ""), FALSE, TRUE, NoAnswer)

\* the page after the first run of the script: nothing pressed yet
Init ==
  /\ option = "Visualize"
  /\ stock_symbol = AAPL
  /\ start_date = 1
  /\ end_date = MaxDate
  /\ indicator = DefaultIndicator
  /\ model_choice = DefaultModel
  /\ days_forecast = SliderDefault
  /\ rendered = {}
  /\ cache = << >>
  /\ fetched = 0
  /\ invoked = << >>
  /\ trigger = Trig("start", "")
  /\ fetches = 0
  /\ source = NoAnswer
  /\ seenBefore = NotCalled
  /\ drawnBefore = FALSE
  /\ messages = {}
  /\ view = "none"
  /\ charts = << >>
  /\ table = << >>
  /\ loaded = NotCalled
  /\ work = NoFrame
  /\ forecast = NoForecast
  /\ tpIn = NoInput

Next ==
  \/ \E o \in Options : SetOption(o)
  \/ \E s \in SymbolInputs : SetSymbol(s)
  \/ \E d \in Dates : SetStartDate(d)
  \/ \E d \in Dates : SetEndDate(d)
  \/ PressLoadData
  \/ \E i \in Indicators : ChooseIndicator(i)
  \/ \E m \in Models : ChooseModel(m)
  \/ \E d \in Horizons : SlideDays(d)
  \/ PressPredict

Spec == Init /\ [][Next]_vars

----------------------------------------------------------------------------
(* train_and_predict called directly on a series of tpIn.n prices *)

InitTrain ==
  /\ option = "Predict"
  /\ stock_symbol = AAPL
  /\ start_date = 1
  /\ end_date = MaxDate
  /\ indicator = DefaultIndicator
  /\ model_choice = DefaultModel
  /\ days_forecast = SliderDefault
  /\ rendered = {}
  /\ cache = << >>
  /\ fetched = 0
  /\ invoked = << >>
  /\ trigger = Trig("start", "")
  /\ fetches = 0
  /\ source = NoAnswer
  /\ seenBefore = NotCalled
  /\ drawnBefore = FALSE
  /\ messages = {}
  /\ view = "none"
  /\ charts = << >>
  /\ table = << >>
  /\ loaded = NotCalled
  /\ work = NoFrame
  /\ forecast = NoForecast
  /\ tpIn \in [ model : Models, n : 1..MaxN, shape : { "up", "flat" }, days : Horizons ]

CallTrainAndPredict ==
  /\ forecast.outcome = "none"
  /\ forecast' = train_and_predict(tpIn.model, Prices(tpIn.n, tpIn.shape), tpIn.days)
  /\ messages' = IF forecast'.outcome \in { "InsufficientData", "ValueError" }
                 THEN { forecast'.outcome } ELSE {}
  /\ UNCHANGED << option, stock_symbol, start_date, end_date, indicator, model_choice,
                  days_forecast, rendered, cache, fetched, invoked,
                  trigger, fetches, source, seenBefore, drawnBefore, view, charts,
                  table, loaded, work, tpIn >>

SpecTrain == InitTrain /\ [][CallTrainAndPredict]_vars

----------------------------------------------------------------------------
(* Claims *)

ThisKey == KeyOf(Widgets)
FlatNames == { Date, Open, High, Low, Close, Volume }
IsFrame(v) == v # None /\ v # NotCalled /\ v # Never
NothingRendered ==
  /\ view = "none"
  /\ charts = << >>
  /\ table = << >>
  /\ forecast = NoForecast
  /\ rendered = {}

\* the series an indicator's chart plots
SeriesOf(i) ==
  CASE i = "Close" -> << Close >>
    [] i = "Bollinger Bands" -> << Close, bb_high, bb_low >>
    [] i = "MACD" -> << macd >>
    [] i = "RSI" -> << rsi >>
    [] i = "SMA" -> << sma >>
    [] i = "EMA" -> << ema >>

\* C1: the run caused by pressing Predict (after a successful Load Data in
\* mode Predict) runs train_and_predict.
C1_PredictRunsTraining ==
  trigger.kind = "Predict" => forecast.outcome # "none"

\* C2: the run caused by choosing an indicator in the radio group draws the
\* chart of that indicator.
C2_ChosenIndicatorDrawn ==
  \A i \in Indicators :
    (trigger.kind = "Indicator" /\ trigger.arg = i)
      => \E k \in 1..Len(charts) : charts[k].y = SeriesOf(i)

\* C3: Load Data with an end date not strictly after the start date reports
\* ValidationError and does not invoke download_data: no fetch, nothing
\* rendered, and no cache entry exists for such a range.
C3_InvalidRangeRejected ==
  /\ (trigger.kind = "Load" /\ ~(start_date < end_date))
       => /\ "ValidationError" \in messages
          /\ loaded = NotCalled
          /\ fetches = 0
          /\ NothingRendered
  /\ \A k \in DOMAIN cache : k[2] < k[3]

C3_Witness ==
  /\ trigger.kind = "Load"
  /\ start_date = end_date
  /\ "ValidationError" \in messages
  /\ fetched > 0

\* C4: a download_data call whose Request Key equals that of an earlier
\* successful call returns the value of the first call without calling the
\* source; a call whose key was never used before calls the source.
C4_CacheByRequestKey ==
  (trigger.kind = "Load" /\ loaded # NotCalled)
    => /\ IsFrame(seenBefore) => (fetches = 0 /\ loaded = seenBefore)
       /\ seenBefore = Never => fetches = 1

C4_Witness ==
  /\ trigger.kind = "Load"
  /\ IsFrame(seenBefore)
  /\ loaded = seenBefore
  /\ fetches = 0
  /\ Cardinality(DOMAIN invoked) = 2

\* C5: the number of rows train_and_predict keeps for fitting is
\* max(0, N - H); when it is 0, InsufficientData is reported and no
\* standardization, split, fit or prediction is performed.
C5_EligibleRows ==
  forecast.outcome # "none"
    => /\ forecast.eligible = Max(0, tpIn.n - tpIn.days)
       /\ forecast.eligible = 0
            => (forecast.outcome = "InsufficientData" /\ forecast.steps = {})

C5_Witness ==
  /\ forecast.outcome = "InsufficientData"
  /\ tpIn.n < tpIn.days
  /\ forecast.eligible = 0
  /\ "InsufficientData" \in messages

\* C6: every forecast table has exactly H rows with day offsets 1..H in
\* increasing order, one predicted price per row.
C6_ForecastRows ==
  forecast.outcome = "forecast"
    => /\ Len(forecast.rows) = tpIn.days
       /\ \A k \in 1..Len(forecast.rows) : forecast.rows[k].Day = k

C6_Witness ==
  /\ forecast.outcome = "forecast"
  /\ tpIn.n = 50
  /\ tpIn.days = 30
  /\ forecast.eligible = 20
  /\ Len(forecast.rows) = 30

\* C7: when the source answers with no rows or raises, download_data reports
\* the error and returns None, the source was called exactly once in that
\* run, and no renderer is invoked.
C7_FailedFetch ==
  (trigger.kind = "Load" /\ fetches > 0 /\ source.kind \in { "empty", "raise" })
    => /\ loaded = None
       /\ fetches = 1
       /\ source.kind = "empty" => "EmptyResult" \in messages
       /\ source.kind = "raise" => "FetchError" \in messages
       /\ NothingRendered

C7_Witness ==
  /\ trigger.kind = "Load"
  /\ fetches = 1
  /\ source.kind = "empty"
  /\ "EmptyResult" \in messages
  /\ option = "Visualize"

\* C8: the cache holds, under every key, exactly the value download_data
\* first produced, and a Load Data of a key whose series tech_indicators has
\* already worked on returns that value without the indicator columns.
C8_CacheUntouchedByRenderers ==
  /\ \A k \in DOMAIN cache : k \in DOMAIN invoked /\ cache[k].value = invoked[k]
  /\ (trigger.kind = "Load" /\ drawnBefore)
       => /\ loaded = invoked[ThisKey]
          /\ \A i \in 1..Len(IndicatorColumns) :
               IndicatorColumns[i] \notin Range(loaded.columns)

C8_Witness ==
  /\ trigger.kind = "Load"
  /\ drawnBefore
  /\ view = "tech_indicators"
  /\ bb_high \in Range(work.columns)
  /\ bb_high \notin Range(loaded.columns)
  /\ fetches = 0

\* C9: every series download_data returns or caches has exactly the flat
\* columns Date, Open, High, Low, Close, Volume, each once.
C9_FlatColumns ==
  /\ \A k \in DOMAIN cache :
       cache[k].value # None
         => /\ Range(cache[k].value.columns) = FlatNames
            /\ Len(cache[k].value.columns) = Cardinality(FlatNames)
  /\ IsFrame(loaded)
       => /\ Range(loaded.columns) = FlatNames
          /\ Len(loaded.columns) = Cardinality(FlatNames)

C9_Witness ==
  /\ trigger.kind = "Load"
  /\ fetches = 1
  /\ source.layout = "multi"
  /\ HasUnderscore(ThisKey[1])
  /\ IsFrame(loaded)
  /\ Range(loaded.columns) = FlatNames

\* C10: after a download_data call for a key failed, every later Load Data
\* with that key returns None without calling the source.
C10_FailureMemoized ==
  (trigger.kind = "Load" /\ seenBefore = None)
    => (fetches = 0 /\ loaded = None)

C10_Witness ==
  /\ trigger.kind = "Load"
  /\ seenBefore = None
  /\ fetches = 0
  /\ loaded = None

====
